---- MODULE Spec2Model ----
(***************************************************************************)
(* Solana Agent Payment Gateway (server.mjs): the in-memory stores, the    *)
(* request handlers that change them, the ledger lookup the verify handler *)
(* awaits, and the delayed task completion.                                *)
(*                                                                         *)
(* A handler without an await runs to completion in one step.  The verify  *)
(* handler awaits connection.getTransaction, so it is two steps: Verify    *)
(* (lines 232-245, up to the await) and VerifyDone (lines 247-332, the     *)
(* continuation), and other handlers may run between the two.              *)
(***************************************************************************)
EXTENDS Integers, Sequences, FiniteSets, Bags, TLC

NULL == "null"

(* ---- bounds ---- *)
MaxAgents == 1
MaxServices == 1
MaxPayments == 2
MaxTasks == 2
MaxVerify == 2

(* ---- JavaScript Number arithmetic (IEEE-754 binary64) ----               *)
(* A positive Number is m * 2^e with m a sequence of MantBits bits, lowest  *)
(* bit first and highest bit 1.  Division and multiplication round to the   *)
(* nearest Number, ties to even, as `/` and `*` do.                         *)
MantBits == 53

LimbBits == 14
Limbs == 4

Bit(s, i) == IF i >= 1 /\ i <= Len(s) THEN s[i] ELSE 0

BitsLess(a, b) ==
    \E i \in 1..MantBits : /\ a[i] < b[i]
                           /\ \A j \in (i + 1)..MantBits : a[j] = b[j]

BitsInc(q) ==
    LET n == Len(q)
        z == IF \E i \in 1..n : q[i] = 0
             THEN CHOOSE i \in 1..n : q[i] = 0 /\ \A j \in 1..(i - 1) : q[j] = 1
             ELSE n + 1
    IN  [i \in 1..(IF z > n THEN z ELSE n) |->
            IF i < z THEN 0 ELSE IF i = z THEN 1 ELSE q[i]]

TopBit(s) == IF \E i \in 1..Len(s) : s[i] = 1
             THEN CHOOSE i \in 1..Len(s) : s[i] = 1 /\ \A j \in (i + 1)..Len(s) : s[j] = 0
             ELSE 0

RoundBits(s, x) ==
    LET t == TopBit(s)
        lo == t - MantBits
        q == [i \in 1..MantBits |-> Bit(s, lo + i)]
        sticky == \E j \in 1..(lo - 1) : s[j] = 1
        up == Bit(s, lo) = 1 /\ (sticky \/ q[1] = 1)
        m == IF up THEN BitsInc(q) ELSE q
    IN  IF Len(m) > MantBits
        THEN [s |-> 1, m |-> SubSeq(m, 2, MantBits + 1), e |-> x + lo + 1]
        ELSE [s |-> 1, m |-> m, e |-> x + lo]

RECURSIVE NatLen(_)
NatLen(n) == IF n = 0 THEN 0 ELSE 1 + NatLen(n \div 2)

NatBit(n, i) == IF i >= 1 /\ i <= 31 THEN (n \div 2^(i - 1)) % 2 ELSE 0

RECURSIVE DivRange(_, _, _, _, _, _)
DivRange(n, k, d, hi, lo, r) ==
    IF hi = lo
    THEN LET r2 == 2 * r + NatBit(n, hi - k)
         IN  IF r2 >= d THEN [q |-> <<1>>, r |-> r2 - d] ELSE [q |-> <<0>>, r |-> r2]
    ELSE LET mid == (hi + lo + 1) \div 2
             up == DivRange(n, k, d, hi, mid, r)
         IN  IF up.r < 0 THEN up
             ELSE LET dn == DivRange(n, k, d, mid - 1, lo, up.r)
                  IN  [q |-> dn.q \o up.q, r |-> dn.r]

NumDiv(n, d) ==
    LET k0 == MantBits - (NatLen(n) - NatLen(d))
        D(k) == DivRange(n, k, d, NatLen(n) + k, 1, 0)
        d0 == D(k0)
        k == IF TopBit(d0.q) > MantBits THEN k0 - 1 ELSE k0
        qr == IF k = k0 THEN d0 ELSE D(k)
        q == [i \in 1..MantBits |-> qr.q[i]]
        up == 2 * qr.r > d \/ (2 * qr.r = d /\ q[1] = 1)
        m == IF up THEN BitsInc(q) ELSE q
    IN  IF Len(m) > MantBits
        THEN [s |-> 1, m |-> SubSeq(m, 2, MantBits + 1), e |-> 1 - k]
        ELSE [s |-> 1, m |-> m, e |-> 0 - k]

RECURSIVE LimbOf(_, _, _)
LimbOf(s, j, t) ==
    IF t = LimbBits THEN 0
    ELSE Bit(s, LimbBits * j + t + 1) * 2^t + LimbOf(s, j, t + 1)

RECURSIVE Column(_, _, _, _)
Column(a, b, c, i) ==
    IF i = Limbs THEN 0
    ELSE (IF c - i >= 0 /\ c - i < Limbs THEN a[i + 1] * b[c - i + 1] ELSE 0)
         + Column(a, b, c, i + 1)

RECURSIVE Carry(_, _, _, _)
Carry(a, b, c, cin) ==
    IF c = 2 * Limbs THEN <<>>
    ELSE LET v == Column(a, b, c, 0) + cin
         IN  <<v % 2^LimbBits>> \o Carry(a, b, c + 1, v \div 2^LimbBits)

NumMul(x, y) ==
    LET a == [j \in 1..Limbs |-> LimbOf(x.m, j - 1, 0)]
        b == [j \in 1..Limbs |-> LimbOf(y.m, j - 1, 0)]
        p == Carry(a, b, 0, 0)
        s == [i \in 1..(2 * Limbs * LimbBits) |->
                 (p[((i - 1) \div LimbBits) + 1] \div 2^((i - 1) % LimbBits)) % 2]
    IN  RoundBits(s, x.e + y.e)

NumLess(x, y) == x.e < y.e \/ (x.e = y.e /\ BitsLess(x.m, y.m))

(* ---- inputs ---- *)
(* Wallets a client can register (valid base58 addresses).                  *)
Wallets == {"A", "B"}

(* A decimal literal n / 10^d of a request body, e.g. 0.001 = [n 1, d 3].   *)
Dec(n, d) == [n |-> n, d |-> d]

(* A price that is absent, null or 0: `priceSOL || null` stores null.       *)
None == Dec(0, 0)

(* An id that is absent from the request body (falsy).                      *)
Missing == 0

(* The price fields a POST /services body can carry.                        *)
Prices == {[priceSOL |-> Dec(1, 3), priceUSDC |-> None],
           [priceSOL |-> Dec(1, 4), priceUSDC |-> None],
           [priceSOL |-> None, priceUSDC |-> Dec(5, 0)],
           [priceSOL |-> None, priceUSDC |-> None]}

LAMPORTS_PER_SOL == 1000000000

(* JSON.parse of a decimal literal: the Number nearest to n / 10^d.         *)
ToNumber(x) == NumDiv(x.n, 10^x.d)

(* The same decimal amount of SOL counted in lamports (exact).              *)
ToLamports(x) == x.n * 10^(9 - x.d)

(* ---- the ledger behind connection.getTransaction ---- *)
(* What the RPC node answers for each signature that is on chain: meta.err, *)
(* the account keys, meta.preBalances / meta.postBalances (lamports, by     *)
(* account index) and the slot.  A signature outside the domain is not on   *)
(* chain: getTransaction resolves to null.                                  *)
Tx(err, keys, pre, post, slot) ==
    [err |-> err, accountKeys |-> keys, preBalances |-> pre,
     postBalances |-> post, slot |-> slot]

(* S1 failed although it pays A in full; S4 leaves A's balance as it was;   *)
(* S5 pays A and B 0.001 SOL each; S6 pays them 0.000099 SOL each.  C is    *)
(* the fee payer.                                                           *)
Ledger ==
    "S1" :> Tx(TRUE,  <<"C", "A">>, <<5000000, 0>>, <<3995000, 1000000>>, 11) @@
    "S4" :> Tx(FALSE, <<"C", "A">>, <<5000000, 7>>, <<4995000, 7>>, 14) @@
    "S5" :> Tx(FALSE, <<"C", "A", "B">>, <<5000000, 0, 0>>, <<2995000, 1000000, 1000000>>, 15) @@
    "S6" :> Tx(FALSE, <<"C", "A", "B">>, <<5000000, 0, 0>>, <<4797000, 99000, 99000>>, 16)

(* The txSignature values a client submits: on chain or not ("S0").         *)
Signatures == DOMAIN Ledger \cup {"S0"}

(* The txSignature values of a body that !txSignature rejects: absent or    *)
(* the empty string.                                                        *)
Falsy == {NULL, ""}

(* The null that getTransaction resolves to for an unknown signature.       *)
NoTransaction == Tx(FALSE, <<>>, <<>>, <<>>, 0)

getTransaction(sig) == IF sig \in DOMAIN Ledger THEN Ledger[sig] ELSE NoTransaction

(* ---- state ---- *)
VARIABLES
    agents,     \* agentId -> agent record; ids are 1..Len(agents)
    services,   \* serviceId -> service record
    payments,   \* paymentId -> payment record
    tasks,      \* taskId -> task record
    calls,      \* verify handlers suspended at the await: bag of [id, txSignature, seen]
    stalled,    \* those of them whose ledger query will never settle
    timers,     \* task ids whose setTimeout callback has not run yet
    nVerify,    \* verify handlers that passed their checks so far
    res         \* what the verify handler that finished last answered

vars == <<agents, services, payments, tasks, calls, stalled, timers, nVerify, res>>

Statuses == {"pending", "not_found", "failed", "wrong_recipient", "underpaid",
             "verified", "error"}

Has(store, id) == id \in 1..Len(store)

Init ==
    /\ agents = <<>>
    /\ services = <<>>
    /\ payments = <<>>
    /\ tasks = <<>>
    /\ calls = EmptyBag
    /\ stalled = EmptyBag
    /\ timers = {}
    /\ nVerify = 0
    /\ res = [code |-> 0, id |-> 0, status |-> NULL, txSignature |-> NULL,
              seen |-> NULL, prev |-> NULL]

(* ---- POST /agents/register ---- *)
(* 400 unless the body names a valid wallet, else 201.                      *)
RegisterResponse(wallet) == IF wallet \notin Wallets THEN 400 ELSE 201

RegisterAgent(wallet) ==
    /\ UNCHANGED <<services, payments, tasks, calls, stalled, timers, nVerify, res>>
    /\ IF RegisterResponse(wallet) # 201
       THEN UNCHANGED agents
       ELSE /\ Len(agents) < MaxAgents
            /\ agents' = Append(agents, [wallet |-> wallet, servicesOffered |-> 0,
                                         totalEarned |-> 0])

(* ---- POST /services ---- *)
ServiceResponse(agentId, price) ==
    IF agentId = Missing \/ (price.priceSOL = None /\ price.priceUSDC = None) THEN 400
    ELSE IF ~Has(agents, agentId) THEN 404
    ELSE 201

CreateService(agentId, price) ==
    /\ UNCHANGED <<payments, tasks, calls, stalled, timers, nVerify, res>>
    /\ IF ServiceResponse(agentId, price) # 201
       THEN UNCHANGED <<agents, services>>
       ELSE /\ Len(services) < MaxServices
            /\ services' = Append(services,
                   [agentId |-> agentId, priceSOL |-> price.priceSOL,
                    priceUSDC |-> price.priceUSDC, payTo |-> agents[agentId].wallet,
                    tasksCompleted |-> 0])
            /\ agents' = [agents EXCEPT ![agentId].servicesOffered = @ + 1]

(* ---- POST /payments/initiate ---- *)
InitiateResponse(serviceId, fromAgentId) ==
    IF serviceId = Missing \/ fromAgentId = Missing THEN 400
    ELSE IF ~Has(services, serviceId) THEN 404
    ELSE IF ~Has(agents, fromAgentId) THEN 404
    ELSE 201

(* InitiatePayment that copies each price into the other asset's field.    *)
InitiatePaymentSwapsAssets(serviceId, fromAgentId) ==
    /\ UNCHANGED <<agents, services, tasks, calls, stalled, timers, nVerify, res>>
    /\ IF InitiateResponse(serviceId, fromAgentId) # 201
       THEN UNCHANGED payments
       ELSE /\ Len(payments) < MaxPayments
            /\ payments' = Append(payments,
                   [serviceId |-> serviceId,
                    from |-> fromAgentId,
                    fromWallet |-> agents[fromAgentId].wallet,
                    to |-> services[serviceId].agentId,
                    toWallet |-> services[serviceId].payTo,
                    amountSOL |-> services[serviceId].priceUSDC,
                    amountUSDC |-> services[serviceId].priceSOL,
                    status |-> "pending",
                    txSignature |-> NULL,
                    verified |-> FALSE,
                    verifiedAt |-> NULL,
                    slot |-> 0])

InitiatePayment(serviceId, fromAgentId) ==
    /\ UNCHANGED <<agents, services, tasks, calls, stalled, timers, nVerify, res>>
    /\ IF InitiateResponse(serviceId, fromAgentId) # 201
       THEN UNCHANGED payments
       ELSE /\ Len(payments) < MaxPayments
            /\ payments' = Append(payments,
                   [serviceId |-> serviceId,
                    from |-> fromAgentId,
                    fromWallet |-> agents[fromAgentId].wallet,
                    to |-> services[serviceId].agentId,
                    toWallet |-> services[serviceId].payTo,
                    amountSOL |-> services[serviceId].priceSOL,
                    amountUSDC |-> services[serviceId].priceUSDC,
                    status |-> "pending",
                    txSignature |-> NULL,
                    verified |-> FALSE,
                    verifiedAt |-> NULL,
                    slot |-> 0])

(* ---- POST /payments/:id/verify ---- *)
(* Lines 232-236: the answers given before the ledger is asked; 0 when the  *)
(* handler goes on to the query.                                            *)
VerifyResponse(id, txSignature) ==
    IF ~Has(payments, id) THEN 404
    ELSE IF txSignature \in Falsy THEN 400
    ELSE 0

(* Verify that records the claimed signature before it checks the body.    *)
VerifyRecordsBeforeCheck(id, txSignature) ==
    /\ UNCHANGED <<agents, services, tasks, stalled, timers, res>>
    /\ IF VerifyResponse(id, txSignature) = 404
       THEN UNCHANGED <<payments, calls, nVerify>>
       ELSE IF VerifyResponse(id, txSignature) = 400
       THEN /\ payments' = [payments EXCEPT ![id].txSignature = txSignature]
            /\ UNCHANGED <<calls, nVerify>>
       ELSE /\ nVerify < MaxVerify
            /\ payments' = [payments EXCEPT ![id].txSignature = txSignature]
            /\ calls' = calls (+) SetToBag({[id |-> id, txSignature |-> txSignature,
                                             seen |-> payments[id].status]})
            /\ nVerify' = nVerify + 1

(* Verify that leaves the recording of the claim to the continuation.       *)
VerifyRecordsNothing(id, txSignature) ==
    /\ UNCHANGED <<agents, services, tasks, stalled, timers, res>>
    /\ IF VerifyResponse(id, txSignature) # 0
       THEN UNCHANGED <<payments, calls, nVerify>>
       ELSE /\ nVerify < MaxVerify
            /\ UNCHANGED payments
            /\ calls' = calls (+) SetToBag({[id |-> id, txSignature |-> txSignature,
                                             seen |-> payments[id].status]})
            /\ nVerify' = nVerify + 1

(* Verify that stores the claimed signature on every payment.              *)
VerifyRecordsOnAll(id, txSignature) ==
    /\ UNCHANGED <<agents, services, tasks, stalled, timers, res>>
    /\ IF VerifyResponse(id, txSignature) # 0
       THEN UNCHANGED <<payments, calls, nVerify>>
       ELSE /\ nVerify < MaxVerify
            /\ payments' = [i \in 1..Len(payments) |->
                                [payments[i] EXCEPT !.txSignature = txSignature]]
            /\ calls' = calls (+) SetToBag({[id |-> id, txSignature |-> txSignature,
                                             seen |-> payments[id].status]})
            /\ nVerify' = nVerify + 1

(* Lines 232-245: look the payment up, check the body, record the claimed   *)
(* signature and issue the ledger query; the handler then waits.            *)
Verify(id, txSignature) ==
    /\ UNCHANGED <<agents, services, tasks, stalled, timers, res>>
    /\ IF VerifyResponse(id, txSignature) # 0
       THEN UNCHANGED <<payments, calls, nVerify>>
       ELSE /\ nVerify < MaxVerify
            /\ payments' = [payments EXCEPT ![id].txSignature = txSignature]
            /\ calls' = calls (+) SetToBag({[id |-> id, txSignature |-> txSignature,
                                             seen |-> payments[id].status]})
            /\ nVerify' = nVerify + 1

(* Line 242: the promise of getTransaction never settles; the handler of   *)
(* call c stays suspended at the await, which has no timeout.               *)
Stall(c) ==
    /\ BagIn(c, calls)
    /\ calls' = calls (-) SetToBag({c})
    /\ stalled' = stalled (+) SetToBag({c})
    /\ UNCHANGED <<agents, services, payments, tasks, timers, nVerify, res>>

(* Line 288: (postBalances[i] - preBalances[i]) / LAMPORTS_PER_SOL; the     *)
(* balances are whole lamports, so the difference is exact.                 *)
Delta(txInfo, idx) == txInfo.postBalances[idx] - txInfo.preBalances[idx]

(* Line 289: received < payment.amountSOL * 0.99, in Number arithmetic.     *)
(* amountSOL is positive, so a zero or negative difference is below it.     *)
Underpaid(delta, amountSOL) ==
    IF delta <= 0 THEN TRUE
    ELSE NumLess(NumDiv(delta, LAMPORTS_PER_SOL),
                 NumMul(ToNumber(amountSOL), ToNumber(Dec(99, 2))))

(* Line 289 for every balance difference on the ledger and every SOL price  *)
(* a service can carry, worked out once.                                    *)
Comparisons ==
    {<<Delta(Ledger[x[1]], x[2]), x[3].priceSOL,
       Underpaid(Delta(Ledger[x[1]], x[2]), x[3].priceSOL)>> :
          x \in {y \in (DOMAIN Ledger) \X (1..3) \X Prices :
                    y[2] <= Len(Ledger[y[1]].accountKeys) /\ y[3].priceSOL # None}}

indexOf(seq, x) ==
    IF \E i \in 1..Len(seq) : seq[i] = x
    THEN CHOOSE i \in 1..Len(seq) : seq[i] = x /\ \A j \in 1..(i - 1) : seq[j] # x
    ELSE 0

(* VerifyOutcome with the recipient check moved before the meta.err check.  *)
VerifyOutcomeRecipientFirst(payment, txInfo) ==
    IF txInfo = NoTransaction THEN "not_found"
    ELSE IF indexOf(txInfo.accountKeys, payment.toWallet) = 0 THEN "wrong_recipient"
    ELSE IF txInfo.err THEN "failed"
    ELSE IF /\ payment.amountSOL # None
            /\ <<Delta(txInfo, indexOf(txInfo.accountKeys, payment.toWallet)),
                  payment.amountSOL, TRUE>> \in Comparisons
         THEN "underpaid"
    ELSE "verified"

(* VerifyOutcome without the meta.err check.                                *)
VerifyOutcomeIgnoresErr(payment, txInfo) ==
    IF txInfo = NoTransaction THEN "not_found"
    ELSE IF indexOf(txInfo.accountKeys, payment.toWallet) = 0 THEN "wrong_recipient"
    ELSE IF /\ payment.amountSOL # None
            /\ <<Delta(txInfo, indexOf(txInfo.accountKeys, payment.toWallet)),
                  payment.amountSOL, TRUE>> \in Comparisons
         THEN "underpaid"
    ELSE "verified"

(* VerifyOutcome that keeps an earlier not_found, underpaid or error.       *)
VerifyOutcomeKeepsRejection(payment, txInfo) ==
    IF payment.status \in {"not_found", "underpaid", "error"} THEN payment.status
    ELSE IF txInfo = NoTransaction THEN "not_found"
    ELSE IF txInfo.err THEN "failed"
    ELSE IF indexOf(txInfo.accountKeys, payment.toWallet) = 0 THEN "wrong_recipient"
    ELSE IF /\ payment.amountSOL # None
            /\ <<Delta(txInfo, indexOf(txInfo.accountKeys, payment.toWallet)),
                  payment.amountSOL, TRUE>> \in Comparisons
         THEN "underpaid"
    ELSE "verified"

(* Lines 247-303: the status the handler writes for the ledger's answer.    *)
VerifyOutcome(payment, txInfo) ==
    IF txInfo = NoTransaction THEN "not_found"
    ELSE IF txInfo.err THEN "failed"
    ELSE IF indexOf(txInfo.accountKeys, payment.toWallet) = 0 THEN "wrong_recipient"
    ELSE IF /\ payment.amountSOL # None
            /\ <<Delta(txInfo, indexOf(txInfo.accountKeys, payment.toWallet)),
                  payment.amountSOL, TRUE>> \in Comparisons
         THEN "underpaid"
    ELSE "verified"

(* Credit that falls back on the USDC amount when there is none in SOL.     *)
CreditEitherAsset(payment) ==
    IF payment.amountSOL = None THEN payment.amountUSDC.n
    ELSE ToLamports(payment.amountSOL)

(* Lines 309-313: toAgent.totalEarned += payment.amountSOL || 0 (lamports). *)
Credit(payment) == IF payment.amountSOL = None THEN 0 ELSE ToLamports(payment.amountSOL)

(* VerifyDone whose catch block answers 500 but leaves the status alone.    *)
VerifyDoneCatchKeepsStatus(c, threw) ==
    /\ BagIn(c, calls)
    /\ calls' = calls (-) SetToBag({c})
    /\ UNCHANGED <<services, tasks, stalled, timers, nVerify>>
    /\ LET payment == payments[c.id]
           txInfo == getTransaction(c.txSignature)
           status == IF threw THEN payment.status ELSE VerifyOutcome(payment, txInfo)
       IN  /\ payments' =
                 IF status = "verified" /\ ~threw
                 THEN [payments EXCEPT ![c.id].status = "verified",
                                       ![c.id].verified = TRUE,
                                       ![c.id].verifiedAt = "now",
                                       ![c.id].slot = txInfo.slot]
                 ELSE [payments EXCEPT ![c.id].status = status]
           /\ agents' =
                 IF status = "verified" /\ ~threw /\ Has(agents, payment.to)
                 THEN [agents EXCEPT ![payment.to].totalEarned = @ + Credit(payment)]
                 ELSE agents
           /\ res' = [code |-> IF threw THEN 500 ELSE 200, id |-> c.id,
                      status |-> IF threw THEN "error" ELSE status,
                      txSignature |-> c.txSignature,
                      seen |-> c.seen, prev |-> payment.status]

(* VerifyDone that clears the expected amount once the payment is verified. *)
VerifyDoneClearsAmount(c, threw) ==
    /\ BagIn(c, calls)
    /\ calls' = calls (-) SetToBag({c})
    /\ UNCHANGED <<services, tasks, stalled, timers, nVerify>>
    /\ LET payment == payments[c.id]
           txInfo == getTransaction(c.txSignature)
           status == IF threw THEN "error" ELSE VerifyOutcome(payment, txInfo)
       IN  /\ payments' =
                 IF status = "verified"
                 THEN [payments EXCEPT ![c.id].status = "verified",
                                       ![c.id].verified = TRUE,
                                       ![c.id].verifiedAt = "now",
                                       ![c.id].slot = txInfo.slot,
                                       ![c.id].amountSOL = None]
                 ELSE [payments EXCEPT ![c.id].status = status]
           /\ agents' =
                 IF status = "verified" /\ Has(agents, payment.to)
                 THEN [agents EXCEPT ![payment.to].totalEarned = @ + Credit(payment)]
                 ELSE agents
           /\ res' = [code |-> IF threw THEN 500 ELSE 200, id |-> c.id,
                      status |-> status, txSignature |-> c.txSignature,
                      seen |-> c.seen, prev |-> payment.status]

(* VerifyDone whose verified branch sets the status but not the flag.       *)
VerifyDoneSkipsFlag(c, threw) ==
    /\ BagIn(c, calls)
    /\ calls' = calls (-) SetToBag({c})
    /\ UNCHANGED <<services, tasks, stalled, timers, nVerify>>
    /\ LET payment == payments[c.id]
           txInfo == getTransaction(c.txSignature)
           status == IF threw THEN "error" ELSE VerifyOutcome(payment, txInfo)
       IN  /\ payments' =
                 IF status = "verified"
                 THEN [payments EXCEPT ![c.id].status = "verified",
                                       ![c.id].verifiedAt = "now",
                                       ![c.id].slot = txInfo.slot]
                 ELSE [payments EXCEPT ![c.id].status = status]
           /\ agents' =
                 IF status = "verified" /\ Has(agents, payment.to)
                 THEN [agents EXCEPT ![payment.to].totalEarned = @ + Credit(payment)]
                 ELSE agents
           /\ res' = [code |-> IF threw THEN 500 ELSE 200, id |-> c.id,
                      status |-> status, txSignature |-> c.txSignature,
                      seen |-> c.seen, prev |-> payment.status]

(* Lines 247-332: the continuation once getTransaction has settled, with    *)
(* the record or null, or with a rejection (threw) that lands in the catch. *)
VerifyDone(c, threw) ==
    /\ BagIn(c, calls)
    /\ calls' = calls (-) SetToBag({c})
    /\ UNCHANGED <<services, tasks, stalled, timers, nVerify>>
    /\ LET payment == payments[c.id]
           txInfo == getTransaction(c.txSignature)
           status == IF threw THEN "error" ELSE VerifyOutcome(payment, txInfo)
       IN  /\ payments' =
                 IF status = "verified"
                 THEN [payments EXCEPT ![c.id].status = "verified",
                                       ![c.id].verified = TRUE,
                                       ![c.id].verifiedAt = "now",
                                       ![c.id].slot = txInfo.slot]
                 ELSE [payments EXCEPT ![c.id].status = status]
           /\ agents' =
                 IF status = "verified" /\ Has(agents, payment.to)
                 THEN [agents EXCEPT ![payment.to].totalEarned = @ + Credit(payment)]
                 ELSE agents
           /\ res' = [code |-> IF threw THEN 500 ELSE 200, id |-> c.id,
                      status |-> status, txSignature |-> c.txSignature,
                      seen |-> c.seen, prev |-> payment.status]

(* ---- POST /tasks/execute ---- *)
(* ExecuteResponse without the payment.verified check.                      *)
ExecuteResponseNoGate(paymentId) ==
    IF paymentId = Missing THEN [code |-> 400, status |-> NULL]
    ELSE IF ~Has(payments, paymentId) THEN [code |-> 404, status |-> NULL]
    ELSE IF ~Has(services, payments[paymentId].serviceId)
         THEN [code |-> 404, status |-> NULL]
    ELSE [code |-> 201, status |-> "processing"]

(* Lines 339-355 and 386: the status code, and the status a 402 carries.    *)
ExecuteResponse(paymentId) ==
    IF paymentId = Missing THEN [code |-> 400, status |-> NULL]
    ELSE IF ~Has(payments, paymentId) THEN [code |-> 404, status |-> NULL]
    ELSE IF ~payments[paymentId].verified
         THEN [code |-> 402, status |-> payments[paymentId].status]
    ELSE IF ~Has(services, payments[paymentId].serviceId)
         THEN [code |-> 404, status |-> NULL]
    ELSE [code |-> 201, status |-> "processing"]

(* Execute that stores the task before it looks at payment.verified.        *)
ExecuteStoresBeforeGate(paymentId) ==
    /\ UNCHANGED <<agents, services, payments, calls, stalled, nVerify, res>>
    /\ IF ExecuteResponse(paymentId).code \notin {201, 402}
       THEN UNCHANGED <<tasks, timers>>
       ELSE /\ Len(tasks) < MaxTasks
            /\ tasks' = Append(tasks,
                   [paymentId |-> paymentId,
                    serviceId |-> payments[paymentId].serviceId,
                    output |-> NULL,
                    status |-> "processing"])
            /\ timers' = IF ExecuteResponse(paymentId).code = 201
                         THEN timers \cup {Len(tasks) + 1} ELSE timers

(* Execute that runs the task before it answers: no timer is set.          *)
ExecuteCompletesInline(paymentId) ==
    /\ UNCHANGED <<agents, services, payments, calls, stalled, nVerify, res>>
    /\ IF ExecuteResponse(paymentId).code # 201
       THEN UNCHANGED <<tasks, timers>>
       ELSE /\ Len(tasks) < MaxTasks
            /\ tasks' = Append(tasks,
                   [paymentId |-> paymentId,
                    serviceId |-> payments[paymentId].serviceId,
                    output |-> "result",
                    status |-> "completed"])
            /\ timers' = timers

Execute(paymentId) ==
    /\ UNCHANGED <<agents, services, payments, calls, stalled, nVerify, res>>
    /\ IF ExecuteResponse(paymentId).code # 201
       THEN UNCHANGED <<tasks, timers>>
       ELSE /\ Len(tasks) < MaxTasks
            /\ tasks' = Append(tasks,
                   [paymentId |-> paymentId,
                    serviceId |-> payments[paymentId].serviceId,
                    output |-> NULL,
                    status |-> "processing"])
            /\ timers' = timers \cup {Len(tasks) + 1}

(* Complete that stores the output but leaves the status alone.            *)
CompleteLeavesProcessing(taskId) ==
    /\ taskId \in timers
    /\ timers' = timers \ {taskId}
    /\ tasks' = [tasks EXCEPT ![taskId].output = "result"]
    /\ services' = [services EXCEPT ![tasks[taskId].serviceId].tasksCompleted = @ + 1]
    /\ UNCHANGED <<agents, payments, calls, stalled, nVerify, res>>

(* Complete that sets the status but stores no output.                      *)
CompleteWithoutOutput(taskId) ==
    /\ taskId \in timers
    /\ timers' = timers \ {taskId}
    /\ tasks' = [tasks EXCEPT ![taskId].status = "completed"]
    /\ services' = [services EXCEPT ![tasks[taskId].serviceId].tasksCompleted = @ + 1]
    /\ UNCHANGED <<agents, payments, calls, stalled, nVerify, res>>

(* Complete that does not count the task on its service.                    *)
CompleteSkipsCounter(taskId) ==
    /\ taskId \in timers
    /\ timers' = timers \ {taskId}
    /\ tasks' = [tasks EXCEPT ![taskId].status = "completed",
                              ![taskId].output = "result"]
    /\ UNCHANGED <<agents, services, payments, calls, stalled, nVerify, res>>

(* Lines 374-384: the setTimeout callback of an admitted task.              *)
Complete(taskId) ==
    /\ taskId \in timers
    /\ timers' = timers \ {taskId}
    /\ tasks' = [tasks EXCEPT ![taskId].status = "completed",
                              ![taskId].output = "result"]
    /\ services' = [services EXCEPT ![tasks[taskId].serviceId].tasksCompleted = @ + 1]
    /\ UNCHANGED <<agents, payments, calls, stalled, nVerify, res>>

(* ---- GET /stats ---- *)
RECURSIVE SumSettled(_)
SumSettled(n) ==
    IF n = 0 THEN 0
    ELSE SumSettled(n - 1) + (IF payments[n].verified THEN Credit(payments[n]) ELSE 0)

(* Lines 410-412 and 418-426: the counts and the total (in lamports) that   *)
(* the handler reports.                                                     *)
StatsResponse ==
    [verified |-> Cardinality({id \in 1..Len(payments) : payments[id].verified}),
     totalSOLSettled |-> SumSettled(Len(payments)),
     completed |-> Cardinality({t \in 1..Len(tasks) : tasks[t].status = "completed"})]

(* Lines 409-429: the handler reads the stores and assigns to none.         *)
Stats == UNCHANGED vars

(* ---- the gateway ---- *)
(* Ids a request can name: missing, issued, or never issued.                *)
Ids(max) == 0..(max + 1)

Next ==
    \/ \E wallet \in Wallets \cup {NULL} : RegisterAgent(wallet)
    \/ \E agentId \in Ids(MaxAgents), price \in Prices : CreateService(agentId, price)
    \/ \E serviceId \in Ids(MaxServices), fromAgentId \in Ids(MaxAgents) :
           InitiatePayment(serviceId, fromAgentId)
    \/ \E id \in 1..(MaxPayments + 1), txSignature \in Signatures \cup Falsy :
           Verify(id, txSignature)
    \/ \E c \in BagToSet(calls) : Stall(c)
    \/ \E c \in BagToSet(calls), threw \in BOOLEAN : VerifyDone(c, threw)
    \/ \E paymentId \in Ids(MaxPayments) : Execute(paymentId)
    \/ \E taskId \in timers : Complete(taskId)
    \/ Stats

Spec == Init /\ [][Next]_vars

(* The event loop runs the continuation of every ledger query that settles *)
(* and the callback of every timer; requests and the ledger's answers are   *)
(* up to the clients and the ledger.                                        *)
FairSpec ==
    /\ Spec
    /\ WF_vars(\E c \in BagToSet(calls), threw \in BOOLEAN : VerifyDone(c, threw))
    /\ WF_vars(\E taskId \in timers : Complete(taskId))

(***************************************************************************)
(* Properties                                                              *)
(***************************************************************************)
PaymentIds == 1..Len(payments)

(* The ledger's answer to the verify handler that finished last.            *)
Answer == getTransaction(res.txSignature)

(* That handler got an answer from the ledger (it did not land in catch).   *)
Answered == res.id # 0 /\ res.code = 200

Involved(txInfo) == {txInfo.accountKeys[i] : i \in 1..Len(txInfo.accountKeys)}

(* C1: an execute call on an existing payment is admitted (201) if and only *)
(* if the payment's status is exactly "verified" at the call, and is        *)
(* answered 402 for every other status.                                     *)
C1_ExecuteIffStatusVerified ==
    \A id \in PaymentIds :
        ExecuteResponse(id).code =
            (IF payments[id].status = "verified" THEN 201 ELSE 402)

(* C2: a verify call on a payment whose status is already "verified" is a   *)
(* no-op: it does not query the ledger and leaves the payment record        *)
(* unchanged.                                                               *)
C2_VerifyOnVerifiedIsNoOp ==
    [][\A id \in PaymentIds, txSignature \in Signatures :
          (payments[id].status = "verified" /\ Verify(id, txSignature))
              => UNCHANGED <<payments, calls>>]_vars

RECURSIVE SumCredits(_, _)
SumCredits(agentId, n) ==
    IF n = 0 THEN 0
    ELSE SumCredits(agentId, n - 1)
         + (IF payments[n].to = agentId /\ payments[n].verified
            THEN Credit(payments[n]) ELSE 0)

(* C3: an agent's totalEarned equals the sum of the expected native amounts *)
(* of the payments payable to it that have been verified: each payment is   *)
(* credited at most once.                                                   *)
C3_EarningsCreditedOnce ==
    \A agentId \in 1..Len(agents) :
        agents[agentId].totalEarned = SumCredits(agentId, Len(payments))

(* C4: once a payment's status is "verified", no later step changes it.     *)
C4_VerifiedIsTerminal ==
    [][\A id \in PaymentIds :
          payments[id].status = "verified" => payments'[id].status = "verified"]_vars

(* C5: a verify call that started while the payment was not verified, and   *)
(* finishes when another call has made it "verified" in the meantime,       *)
(* leaves the status "verified".                                            *)
C5_StaleVerifyDoesNotClobber ==
    [][\A c \in BagToSet(calls), threw \in BOOLEAN :
          (/\ c.seen # "verified"
           /\ payments[c.id].status = "verified"
           /\ VerifyDone(c, threw))
              => payments'[c.id].status = "verified"]_vars

(* The amount rule as the handler evaluates it: the payment is in SOL and   *)
(* the payee's balance difference is below the tolerance threshold.         *)
BelowTolerance(payment, txInfo) ==
    /\ payment.amountSOL # None
    /\ \E i \in 1..Len(txInfo.accountKeys) :
          /\ txInfo.accountKeys[i] = payment.toWallet
          /\ \A j \in 1..(i - 1) : txInfo.accountKeys[j] # payment.toWallet
          /\ Underpaid(txInfo.postBalances[i] - txInfo.preBalances[i], payment.amountSOL)

(* The rules of the verification algorithm, each with the negation of the   *)
(* rules before it.                                                         *)
RuleNotFound(txInfo) == txInfo = NoTransaction
RuleFailed(txInfo) == ~RuleNotFound(txInfo) /\ txInfo.err
RuleWrongRecipient(payment, txInfo) ==
    /\ ~RuleNotFound(txInfo) /\ ~txInfo.err
    /\ payment.toWallet \notin Involved(txInfo)
RuleUnderpaid(payment, txInfo) ==
    /\ ~RuleNotFound(txInfo) /\ ~txInfo.err
    /\ payment.toWallet \in Involved(txInfo)
    /\ BelowTolerance(payment, txInfo)
RuleVerified(payment, txInfo) ==
    /\ ~RuleNotFound(txInfo) /\ ~txInfo.err
    /\ payment.toWallet \in Involved(txInfo)
    /\ ~BelowTolerance(payment, txInfo)

(* C6: the outcome of a verify call on a payment that is not verified is    *)
(* that of the first matching rule, in the order not_found, failed,         *)
(* wrong_recipient, underpaid, verified, and it is the status written to    *)
(* the payment.                                                             *)
C6_FirstMatchingRuleWins ==
    (Answered /\ res.prev # "verified") =>
        LET payment == payments[res.id]
        IN  /\ payment.status = res.status
            /\ RuleNotFound(Answer) => res.status = "not_found"
            /\ RuleFailed(Answer) => res.status = "failed"
            /\ RuleWrongRecipient(payment, Answer) => res.status = "wrong_recipient"
            /\ RuleUnderpaid(payment, Answer) => res.status = "underpaid"
            /\ RuleVerified(payment, Answer) => res.status = "verified"

(* A verify call on an unverified payment got a record that is failed and   *)
(* also misses the payee, and answered "failed".                            *)
C6_Witness ==
    /\ Answered /\ res.prev # "verified"
    /\ Answer # NoTransaction /\ Answer.err
    /\ payments[res.id].toWallet \notin Involved(Answer)
    /\ res.status = "failed"

(* C7: for a payment in SOL whose transaction exists, succeeded and         *)
(* involves the payee, the outcome is "verified" exactly when the payee's   *)
(* balance difference is at least 0.99 * expectedAmount and "underpaid"     *)
(* exactly when it is less.  In lamports: 100 * delta >= 99 * expected.     *)
C7_ToleranceIsNinetyNinePercent ==
    (/\ Answered /\ res.prev # "verified"
     /\ Answer # NoTransaction /\ ~Answer.err
     /\ payments[res.id].toWallet \in Involved(Answer)
     /\ payments[res.id].amountSOL # None) =>
        LET payment == payments[res.id]
            delta == Delta(Answer, indexOf(Answer.accountKeys, payment.toWallet))
            enough == 100 * delta >= 99 * ToLamports(payment.amountSOL)
        IN  /\ res.status = "verified" <=> enough
            /\ res.status = "underpaid" <=> ~enough

(* C8: from not_found, underpaid or error, a verify call whose transaction  *)
(* exists, succeeded, involves the payee and is not below the tolerance     *)
(* sets the status to "verified", and execute is then admitted.             *)
C8_NonTerminalCanReachVerified ==
    (/\ Answered
     /\ res.prev \in {"not_found", "underpaid", "error"}
     /\ RuleVerified(payments[res.id], Answer)) =>
        /\ res.status = "verified"
        /\ payments[res.id].status = "verified"
        /\ ExecuteResponse(res.id).code = 201

(* A payment that was "underpaid" became "verified" and has a task.         *)
C8_Witness ==
    /\ Answered
    /\ res.prev = "underpaid"
    /\ res.status = "verified"
    /\ \E t \in 1..Len(tasks) : tasks[t].paymentId = res.id

(* C9: a verify call that claims a transaction the ledger reports as        *)
(* failed answers "failed" and sets the status "failed" on a payment that   *)
(* is not verified, however often the transaction is resubmitted.           *)
C9_FailedTransactionAlwaysFails ==
    (/\ Answered /\ res.prev # "verified"
     /\ Answer # NoTransaction /\ Answer.err) =>
        /\ res.status = "failed"
        /\ payments[res.id].status = "failed"

(* The failed transaction pays the payee the full price, and was submitted  *)
(* again on a payment it had already failed.                                *)
C9_Witness ==
    /\ Answered
    /\ Answer # NoTransaction /\ Answer.err
    /\ res.prev = "failed" /\ res.seen = "failed"
    /\ res.status = "failed"
    /\ payments[res.id].toWallet \in Involved(Answer)
    /\ payments[res.id].amountSOL # None
    /\ ~BelowTolerance(payments[res.id], Answer)

(* C10: once a payment's status is "failed", no later verify call changes   *)
(* it.                                                                      *)
C10_FailedIsTerminal ==
    [][\A id \in PaymentIds :
          payments[id].status = "failed" => payments'[id].status = "failed"]_vars

(* C11: a verify call whose ledger query fails sets the payment's status to *)
(* "error" and answers 500; a call whose query is answered answers 200 with *)
(* one of not_found, failed, wrong_recipient, underpaid, verified; the      *)
(* handler issues no further query of its own.                              *)
C11_OracleFailureIsError ==
    [][\A c \in BagToSet(calls), threw \in BOOLEAN :
          VerifyDone(c, threw) =>
              /\ threw => /\ payments'[c.id].status = "error"
                          /\ res'.code = 500 /\ res'.status = "error"
              /\ ~threw => /\ res'.code = 200
                           /\ res'.status \in Statuses \ {"error", "pending"}
                           /\ payments'[c.id].status = res'.status
              /\ calls' = calls (-) SetToBag({c})
              /\ stalled' = stalled]_vars

(* A ledger query failed: the payment is in "error", the answer was 500 and *)
(* no query is under way.                                                   *)
C11_Witness ==
    /\ res.id # 0 /\ res.code = 500 /\ res.status = "error"
    /\ payments[res.id].status = "error"
    /\ calls = EmptyBag /\ stalled = EmptyBag

(* The verify handlers that have recorded their claim and not answered yet. *)
Waiting == calls (+) stalled

(* C12: every verify call eventually resolves, even when the ledger never   *)
(* answers it: whenever a handler is waiting for the ledger, a time comes   *)
(* when none is.                                                            *)
C12_VerifyEventuallyResolves ==
    (Waiting # EmptyBag) ~> (Waiting = EmptyBag)

(* C13: an execute call is answered 400 when the payment id is missing, 404 *)
(* when the payment is unknown and 402, with the payment's current status,  *)
(* when the payment is not verified; a call so rejected creates no task and *)
(* changes no payment, service or agent.                                    *)
C13_RejectedExecuteHasNoEffect ==
    [][\A paymentId \in Ids(MaxPayments) :
          /\ paymentId = Missing => ExecuteResponse(paymentId).code = 400
          /\ (paymentId # Missing /\ ~Has(payments, paymentId)) =>
                 ExecuteResponse(paymentId).code = 404
          /\ (Has(payments, paymentId) /\ ~payments[paymentId].verified) =>
                 ExecuteResponse(paymentId) =
                     [code |-> 402, status |-> payments[paymentId].status]
          /\ (ExecuteResponse(paymentId).code \in {400, 404, 402} /\ Execute(paymentId)) =>
                 UNCHANGED <<tasks, timers, payments, services, agents>>]_vars

(* A payment that was found underpaid, for which execute answers 402 with   *)
(* "underpaid", and that has no task.                                       *)
C13_Witness ==
    \E id \in PaymentIds :
        /\ ~payments[id].verified /\ payments[id].status = "underpaid"
        /\ ExecuteResponse(id) = [code |-> 402, status |-> "underpaid"]
        /\ \A t \in 1..Len(tasks) : tasks[t].paymentId # id

(* C14: an admitted execute call adds exactly one task, in "processing"     *)
(* with null output, for the admitting payment and that payment's service,  *)
(* and answers 201 "processing" with the task's completion still to come: a *)
(* task is completed only in a later step than the one that created it.     *)
C14_AdmittedExecuteCreatesProcessingTask ==
    [][/\ \A paymentId \in PaymentIds :
             (ExecuteResponse(paymentId).code = 201 /\ Execute(paymentId)) =>
                 /\ tasks' = Append(tasks,
                        [paymentId |-> paymentId,
                         serviceId |-> payments[paymentId].serviceId,
                         output |-> NULL,
                         status |-> "processing"])
                 /\ ExecuteResponse(paymentId).status = "processing"
                 /\ (Len(tasks) + 1) \in timers'
       /\ \A t \in 1..Len(tasks') :
             tasks'[t].status = "completed" =>
                 /\ t \in 1..Len(tasks)
                 /\ tasks[t].status \in {"processing", "completed"}
                 /\ t \notin timers']_vars

(* One task has been completed and another, just admitted, is still in      *)
(* "processing" with null output and its timer pending.                     *)
C14_Witness ==
    \E t, u \in 1..Len(tasks) :
        /\ tasks[t].status = "processing" /\ tasks[t].output = NULL
        /\ t \in timers
        /\ tasks[t].serviceId = payments[tasks[t].paymentId].serviceId
        /\ tasks[u].status = "completed" /\ u \notin timers

(* C15: every admitted task eventually reaches "completed", given that the  *)
(* timer callbacks are run.                                                 *)
C15_TaskEventuallyCompletes ==
    \A t \in 1..MaxTasks :
        (Has(tasks, t) /\ tasks[t].status = "processing")
            ~> (Has(tasks, t) /\ tasks[t].status = "completed")

(* Every task that could be admitted has been, and has completed with an    *)
(* output.                                                                  *)
C15_Witness ==
    /\ Len(tasks) = MaxTasks
    /\ \A t \in 1..Len(tasks) : tasks[t].status = "completed" /\ tasks[t].output # NULL
    /\ timers = {}

(* C16: for each payment at most one task that references it is in          *)
(* "processing", however many execute calls are made against it.            *)
C16_OneOutstandingTaskPerPayment ==
    \A id \in PaymentIds :
        Cardinality({t \in 1..Len(tasks) :
                        tasks[t].paymentId = id /\ tasks[t].status = "processing"}) <= 1

RECURSIVE SumStatusVerified(_)
SumStatusVerified(n) ==
    IF n = 0 THEN 0
    ELSE SumStatusVerified(n - 1)
         + (IF payments[n].status = "verified" THEN Credit(payments[n]) ELSE 0)

(* C17: the stats report the number of payments whose status is "verified"  *)
(* at the query, the sum of their expected amounts, and the number of tasks *)
(* whose status is "completed"; the query changes no store.                 *)
C17_StatsReflectStatus ==
    /\ StatsResponse.verified =
           Cardinality({id \in PaymentIds : payments[id].status = "verified"})
    /\ StatsResponse.totalSOLSettled = SumStatusVerified(Len(payments))
    /\ StatsResponse.completed =
           Cardinality({t \in 1..Len(tasks) : tasks[t].status = "completed"})

(* C18: initiation with an existing service and an existing payer adds      *)
(* exactly one payment, "pending", with no claimed transaction and not      *)
(* verified, carrying the service's payee address and price, and answers    *)
(* 201; with a missing argument it answers 400, with an unknown service or  *)
(* payer 404, and then no payment is added and nothing changes.             *)
C18_InitiateCreatesPendingPayment ==
    [][\A serviceId \in Ids(MaxServices), fromAgentId \in Ids(MaxAgents) :
          LET known == Has(services, serviceId) /\ Has(agents, fromAgentId)
              missing == serviceId = Missing \/ fromAgentId = Missing
          IN  /\ InitiateResponse(serviceId, fromAgentId) =
                     (IF missing THEN 400 ELSE IF known THEN 201 ELSE 404)
              /\ (known /\ InitiatePayment(serviceId, fromAgentId)) =>
                     /\ Len(payments') = Len(payments) + 1
                     /\ SubSeq(payments', 1, Len(payments)) = payments
                     /\ LET p == payments'[Len(payments')]
                        IN  /\ p.status = "pending"
                            /\ p.txSignature = NULL
                            /\ ~p.verified
                            /\ p.serviceId = serviceId
                            /\ p.from = fromAgentId
                            /\ p.toWallet = services[serviceId].payTo
                            /\ p.amountSOL = services[serviceId].priceSOL
                            /\ p.amountUSDC = services[serviceId].priceUSDC
                     /\ UNCHANGED <<agents, services, tasks, calls, stalled, timers>>
              /\ (~known /\ InitiatePayment(serviceId, fromAgentId)) => UNCHANGED vars]_vars

(* A payment has been initiated for a service priced in SOL: it is pending  *)
(* with no claim and carries the service's address and price.               *)
C18_Witness ==
    \E id \in PaymentIds :
        LET p == payments[id]
        IN  /\ p.status = "pending" /\ p.txSignature = NULL /\ ~p.verified
            /\ p.toWallet = services[p.serviceId].payTo
            /\ p.amountSOL = services[p.serviceId].priceSOL
            /\ p.amountSOL # None /\ p.amountUSDC = None

(* C19: a verify call for an unknown payment answers 404 and one with an    *)
(* empty or missing txSignature answers 400; in both cases no ledger query  *)
(* is issued and no payment's status or claimed signature changes.          *)
C19_RejectedVerifyHasNoEffect ==
    [][\A id \in 1..(MaxPayments + 1), txSignature \in Signatures \cup Falsy :
          /\ ~Has(payments, id) => VerifyResponse(id, txSignature) = 404
          /\ (Has(payments, id) /\ txSignature \in Falsy) =>
                 VerifyResponse(id, txSignature) = 400
          /\ (VerifyResponse(id, txSignature) \in {400, 404} /\ Verify(id, txSignature)) =>
                 UNCHANGED <<payments, calls, stalled, nVerify>>]_vars

(* A payment carries a claim, no query is under way, and a verify call with *)
(* an empty signature for it, and one for an id never issued, are rejected. *)
C19_Witness ==
    \E id \in PaymentIds :
        /\ payments[id].txSignature \in Signatures
        /\ payments[id].status = "not_found"
        /\ calls = EmptyBag
        /\ VerifyResponse(id, "") = 400
        /\ VerifyResponse(Len(payments) + 1, "S5") = 404

(* C20: a task comes into existence only by an admitted execute call, and   *)
(* references an existing payment that a verify call had found verified on  *)
(* the ledger by then (the flag it sets is never cleared); a task is        *)
(* completed only if it was so created.                                     *)
C20_GateIsOnlyWayToTask ==
    [][/\ \A t \in 1..Len(tasks') :
             /\ Has(payments', tasks'[t].paymentId)
             /\ payments'[tasks'[t].paymentId].verified
             /\ payments'[tasks'[t].paymentId].verifiedAt # NULL
       /\ Len(tasks') >= Len(tasks)
       /\ Len(tasks') > Len(tasks) =>
             \E paymentId \in PaymentIds :
                 /\ payments[paymentId].verified
                 /\ ExecuteResponse(paymentId).code = 201
                 /\ Execute(paymentId)
       /\ (Len(tasks') = Len(tasks) /\ tasks' # tasks) =>
             \E taskId \in timers : Complete(taskId)]_vars

(* A task exists for a payment that was verified, while another payment,    *)
(* not verified, has none.                                                  *)
C20_Witness ==
    /\ \E t \in 1..Len(tasks) : payments[tasks[t].paymentId].verified
    /\ \E id \in PaymentIds :
          /\ ~payments[id].verified
          /\ payments[id].txSignature # NULL
          /\ \A t \in 1..Len(tasks) : tasks[t].paymentId # id

(* C21: a verify call that passes its checks stores its txSignature on the  *)
(* payment, over any earlier one, in the step that issues the ledger query, *)
(* and nothing else writes that field: the stored txSignature is that of    *)
(* the verify call started last on the payment, whether or not its query    *)
(* ever returns.                                                            *)
C21_ClaimRecordedBeforeQuery ==
    [][/\ \A id \in PaymentIds, txSignature \in Signatures :
             Verify(id, txSignature) =>
                 /\ payments'[id].txSignature = txSignature
                 /\ BagIn([id |-> id, txSignature |-> txSignature,
                           seen |-> payments[id].status], calls')
       /\ \A id \in PaymentIds :
             payments'[id].txSignature # payments[id].txSignature =>
                 Verify(id, payments'[id].txSignature)
       /\ \A id \in 1..Len(payments') :
             id \notin PaymentIds => payments'[id].txSignature = NULL]_vars

(* A payment was found not_found for one claim and now stores a later one,  *)
(* whose ledger query will never return.                                    *)
C21_Witness ==
    \E c \in BagToSet(stalled) :
        /\ payments[c.id].txSignature = c.txSignature
        /\ c.seen = "not_found"
        /\ res.id = c.id /\ res.txSignature # c.txSignature
        /\ calls = EmptyBag

(* C22: a task's status moves only from "processing" to "completed", once   *)
(* and never back; its output is non-null exactly when its status is        *)
(* "completed"; its payment and service references never change.            *)
C22_TaskStatusMonotone ==
    [][/\ \A t \in 1..Len(tasks') :
             /\ tasks'[t].status \in {"processing", "completed"}
             /\ tasks'[t].output # NULL <=> tasks'[t].status = "completed"
       /\ \A t \in 1..Len(tasks) :
             /\ t \in 1..Len(tasks')
             /\ tasks'[t].paymentId = tasks[t].paymentId
             /\ tasks'[t].serviceId = tasks[t].serviceId
             /\ tasks[t].status = "completed" => tasks'[t] = tasks[t]
             /\ tasks'[t].status # tasks[t].status =>
                    /\ tasks[t].status = "processing"
                    /\ tasks'[t].status = "completed"
                    /\ t \in timers /\ t \notin timers']_vars

(* Two tasks of one payment: the first completed with its output, the       *)
(* second still in "processing" without one.                                *)
C22_Witness ==
    /\ Len(tasks) = 2
    /\ tasks[1].paymentId = tasks[2].paymentId
    /\ tasks[1].status = "completed" /\ tasks[1].output # NULL
    /\ tasks[2].status = "processing" /\ tasks[2].output = NULL

(* C23: each service's tasksCompleted equals the number of tasks that       *)
(* reference the service and whose status is "completed".                   *)
C23_CounterMatchesCompletedTasks ==
    \A s \in 1..Len(services) :
        services[s].tasksCompleted =
            Cardinality({t \in 1..Len(tasks) :
                            tasks[t].serviceId = s /\ tasks[t].status = "completed"})

(* A service has completed two tasks and its counter is 2.                  *)
C23_Witness ==
    \E s \in 1..Len(services) :
        /\ services[s].tasksCompleted = 2
        /\ Cardinality({t \in 1..Len(tasks) : tasks[t].serviceId = s}) = 2

(* C24: a verify or execute call on a payment changes no other payment, and *)
(* what it writes on its own payment is determined by that payment's record *)
(* and the call alone, whatever calls on other payments are under way.      *)
C24_PaymentsAreIndependent ==
    [][/\ \A id \in PaymentIds, txSignature \in Signatures :
             Verify(id, txSignature) =>
                 /\ \A other \in PaymentIds \ {id} : payments'[other] = payments[other]
                 /\ payments'[id] = [payments[id] EXCEPT !.txSignature = txSignature]
       /\ \A c \in BagToSet(calls), threw \in BOOLEAN :
             VerifyDone(c, threw) =>
                 /\ \A other \in PaymentIds \ {c.id} : payments'[other] = payments[other]
                 /\ payments'[c.id].status =
                        (IF threw THEN "error"
                         ELSE VerifyOutcome(payments[c.id], getTransaction(c.txSignature)))
       /\ \A paymentId \in PaymentIds : Execute(paymentId) => payments' = payments
       /\ \A c \in BagToSet(calls) : Stall(c) => payments' = payments]_vars

(* Two payments with verify calls answered on both: one is verified, the    *)
(* other stores a different claim and is not.                               *)
C24_Witness ==
    \E p, q \in PaymentIds :
        /\ p # q
        /\ payments[p].status = "verified"
        /\ payments[q].status \in {"not_found", "failed"}
        /\ payments[q].txSignature # payments[p].txSignature
        /\ Waiting = EmptyBag

(* The terms of a payment: what initiation copies from the service and the  *)
(* payer.                                                                   *)
Terms(payment) ==
    <<payment.serviceId, payment.from, payment.fromWallet, payment.to,
      payment.toWallet, payment.amountSOL, payment.amountUSDC>>

(* C25: no step changes an existing payment's service, payer, payee, payee  *)
(* address or expected amounts, which are those of the service as it was at *)
(* initiation; a verify call checks the ledger's record against them.       *)
C25_PaymentTermsFixed ==
    [][/\ \A id \in PaymentIds :
             /\ id \in 1..Len(payments')
             /\ Terms(payments'[id]) = Terms(payments[id])
       /\ \A id \in 1..Len(payments') :
             LET p == payments'[id]
             IN  /\ Has(services', p.serviceId)
                 /\ p.toWallet = services'[p.serviceId].payTo
                 /\ p.amountSOL = services'[p.serviceId].priceSOL
                 /\ p.amountUSDC = services'[p.serviceId].priceUSDC
       /\ \A c \in BagToSet(calls) :
             VerifyDone(c, FALSE) =>
                 LET p == payments[c.id]
                     txInfo == getTransaction(c.txSignature)
                 IN  /\ res'.status = "wrong_recipient" =>
                            p.toWallet \notin Involved(txInfo)
                     /\ res'.status = "underpaid" => BelowTolerance(p, txInfo)
                     /\ res'.status = "verified" =>
                            /\ p.toWallet \in Involved(txInfo)
                            /\ ~BelowTolerance(p, txInfo)]_vars

(* A payment in SOL has been verified and a task for it completed, and it   *)
(* still carries its service's address and price.                           *)
C25_Witness ==
    \E id \in PaymentIds, t \in 1..Len(tasks) :
        /\ payments[id].status = "verified"
        /\ payments[id].amountSOL # None
        /\ payments[id].amountSOL = services[payments[id].serviceId].priceSOL
        /\ tasks[t].paymentId = id /\ tasks[t].status = "completed"

(* C26: a payment whose status is "verified" has the flag verified set, a   *)
(* slot and a verification time; the flag becomes true only in a verify     *)
(* call whose outcome is Verified, and once true it stays true.             *)
C26_FlagAgreesWithStatus ==
    [][/\ \A id \in 1..Len(payments') :
             payments'[id].status = "verified" =>
                 /\ payments'[id].verified
                 /\ payments'[id].verifiedAt # NULL
                 /\ payments'[id].slot # 0
       /\ \A id \in 1..Len(payments') :
             (payments'[id].verified /\ ~(Has(payments, id) /\ payments[id].verified)) =>
                 \E c \in BagToSet(calls) :
                     /\ c.id = id
                     /\ VerifyDone(c, FALSE)
                     /\ VerifyOutcome(payments[id], getTransaction(c.txSignature)) = "verified"
                     /\ res'.status = "verified"
       /\ \A id \in PaymentIds : payments[id].verified => payments'[id].verified]_vars

(* A payment was verified and a later verify call left it in another        *)
(* status: the flag is still set.                                           *)
C26_Witness ==
    \E id \in PaymentIds :
        /\ payments[id].verified
        /\ payments[id].status \in {"not_found", "failed", "error"}
        /\ res.id = id /\ res.prev = "verified"

(* The ledger transaction whose slot a verified payment records.            *)
VerifiedBy(id) == CHOOSE sig \in DOMAIN Ledger : Ledger[sig].slot = payments[id].slot

(* C27: no two distinct payments were both verified by the same ledger      *)
(* transaction.                                                             *)
C27_OneTransactionOnePayment ==
    \A p, q \in PaymentIds :
        (p # q /\ payments[p].verified /\ payments[q].verified) =>
            VerifiedBy(p) # VerifiedBy(q)

(* C28: a payment whose flag verified is set stores the txSignature of a    *)
(* transaction that passes every verification rule for that payment.        *)
C28_VerifiedClaimPassed ==
    \A id \in PaymentIds :
        payments[id].verified =>
            VerifyOutcome(payments[id], getTransaction(payments[id].txSignature))
                = "verified"

(* C29: when no verify call is under way on a payment that has a claim, the *)
(* payment's status is the outcome the verification rules give for the      *)
(* stored txSignature (or "error" after a failed ledger query).             *)
C29_StatusMatchesStoredClaim ==
    \A id \in PaymentIds :
        (/\ payments[id].txSignature # NULL
         /\ \A c \in BagToSet(Waiting) : c.id # id) =>
            \/ payments[id].status = "error"
            \/ payments[id].status =
                   VerifyOutcome(payments[id], getTransaction(payments[id].txSignature))

(* C30: for a payment with no amount in SOL, a verify call whose            *)
(* transaction exists, succeeded and involves the payee ends Verified       *)
(* whatever the payee's balance difference, and leaves the payee's          *)
(* totalEarned as it was.                                                   *)
C30_NonNativeSkipsAmountCheck ==
    [][\A c \in BagToSet(calls) :
          LET payment == payments[c.id]
              txInfo == getTransaction(c.txSignature)
          IN  (/\ VerifyDone(c, FALSE)
               /\ payment.amountSOL = None
               /\ txInfo # NoTransaction /\ ~txInfo.err
               /\ payment.toWallet \in Involved(txInfo)) =>
                  /\ res'.status = "verified"
                  /\ payments'[c.id].status = "verified"
                  /\ payments'[c.id].verified
                  /\ \A a \in 1..Len(agents) :
                         agents'[a].totalEarned = agents[a].totalEarned]_vars

(* A payment in USDC was verified by a transaction that leaves the payee's  *)
(* balance as it was, and the payee has earned nothing.                     *)
C30_Witness ==
    /\ Answered /\ res.status = "verified"
    /\ payments[res.id].amountSOL = None /\ payments[res.id].amountUSDC # None
    /\ payments[res.id].status = "verified"
    /\ Delta(Answer, indexOf(Answer.accountKeys, payments[res.id].toWallet)) = 0
    /\ agents[payments[res.id].to].totalEarned = 0

====
